---------------------------- MODULE Spec2Model ----------------------------
(***************************************************************************)
(* dockerfile-source-checksum: the checksum engine of                      *)
(* pkg/checksum/dockerfile.go and its caller handlerRoot (main.go).        *)
(*                                                                         *)
(* Strings are sequences of one-character strings, so that concatenation   *)
(* into the hash accumulator, byte-wise comparison (sort.Strings) and      *)
(* `${NAME}` expansion are computed as the code computes them.             *)
(***************************************************************************)
EXTENDS Integers, Sequences, FiniteSets, TLC

(***************************************************************************)
(* Strings                                                                 *)
(***************************************************************************)

\* The byte value of every character the model's inputs use (ASCII).
Ascii ==
    "$" :> 36 @@ "*" :> 42 @@ "." :> 46 @@ "/" :> 47 @@
    "0" :> 48 @@ "1" :> 49 @@ "2" :> 50 @@ "3" :> 51 @@ "4" :> 52 @@
    "5" :> 53 @@ "6" :> 54 @@ "=" :> 61 @@
    "A" :> 65 @@ "E" :> 69 @@ "G" :> 71 @@ "N" :> 78 @@ "R" :> 82 @@
    "V" :> 86 @@ "[" :> 91 @@ "_" :> 95 @@
    "a" :> 97 @@ "b" :> 98 @@ "c" :> 99 @@ "d" :> 100 @@ "e" :> 101 @@
    "g" :> 103 @@ "i" :> 105 @@ "k" :> 107 @@ "l" :> 108 @@ "m" :> 109 @@
    "n" :> 110 @@ "o" :> 111 @@ "p" :> 112 @@
    "r" :> 114 @@ "s" :> 115 @@ "t" :> 116 @@ "u" :> 117 @@ "v" :> 118 @@
    "x" :> 120 @@ "y" :> 121 @@ "z" :> 122 @@
    "{" :> 123 @@ "}" :> 125

\* Go's string comparison a < b: byte-wise lexicographic, a proper prefix first.
RECURSIVE StrLess(_, _)
StrLess(a, b) ==
    IF b = <<>> THEN FALSE
    ELSE IF a = <<>> THEN TRUE
    ELSE IF Ascii[Head(a)] # Ascii[Head(b)] THEN Ascii[Head(a)] < Ascii[Head(b)]
    ELSE StrLess(Tail(a), Tail(b))

StrLeq(a, b) == a = b \/ StrLess(a, b)

\* Insertion of x into an ascending sequence, after the elements equal to it.
RECURSIVE InsertSorted(_, _)
InsertSorted(x, s) ==
    IF s = <<>> THEN <<x>>
    ELSE IF StrLess(x, Head(s)) THEN <<x>> \o s
    ELSE <<Head(s)>> \o InsertSorted(x, Tail(s))

\* sort.Strings(s): the same strings (duplicates kept) in ascending order.
RECURSIVE SortStrings(_)
SortStrings(s) ==
    IF s = <<>> THEN <<>>
    ELSE InsertSorted(s[Len(s)], SortStrings(SubSeq(s, 1, Len(s) - 1)))

IsSortedStrings(s) == \A i \in 1..(Len(s) - 1) : StrLeq(s[i], s[i + 1])

\* The concatenation of a sequence of strings.
RECURSIVE Concat(_)
Concat(ss) == IF ss = <<>> THEN <<>> ELSE Head(ss) \o Concat(Tail(ss))

\* Every enumeration (without repetition) of a finite set.
Enumerations(S) ==
    { f \in [1..Cardinality(S) -> S] : \A i, j \in DOMAIN f : f[i] = f[j] => i = j }

\* Every reordering of a sequence.
Reorderings(s) ==
    { [i \in DOMAIN s |-> s[p[i]]] : p \in Enumerations(DOMAIN s) }

HasPrefix(s, p) == Len(s) >= Len(p) /\ SubSeq(s, 1, Len(p)) = p

\* The index of the first c in s at or after position i, 0 when there is none.
RECURSIVE IndexFrom(_, _, _)
IndexFrom(s, c, i) ==
    IF i > Len(s) THEN 0
    ELSE IF s[i] = c THEN i
    ELSE IndexFrom(s, c, i + 1)

\* s split at every "/" (strings.Split(s, "/")).
RECURSIVE Split(_)
Split(s) ==
    LET k == IndexFrom(s, "/", 1) IN
    IF k = 0 THEN <<s>>
    ELSE <<SubSeq(s, 1, k - 1)>> \o Split(SubSeq(s, k + 1, Len(s)))

\* Segments joined with "/".
RECURSIVE JoinSegs(_)
JoinSegs(segs) ==
    IF segs = <<>> THEN <<>>
    ELSE IF Len(segs) = 1 THEN segs[1]
    ELSE segs[1] \o <<"/">> \o JoinSegs(Tail(segs))

(***************************************************************************)
(* Word expansion: shell.Lex.ProcessWordWithMap on the words the model's   *)
(* recipes hold (no quotes, escapes or ${NAME:-x} modifiers).              *)
(***************************************************************************)

NameChars ==
    {"0", "1", "2", "3", "4", "5", "6", "A", "E", "G", "N", "R", "V", "_",
     "a", "b", "c", "d", "e", "g", "i", "k", "l", "m", "n", "o", "p", "r", "s",
     "t", "u", "v", "x", "y", "z"}

\* The length of the longest prefix of s made of name characters.
RECURSIVE NameLen(_)
NameLen(s) ==
    IF s = <<>> \/ Head(s) \notin NameChars THEN 0 ELSE 1 + NameLen(Tail(s))

\* The value of a name in the table, "" when the name is not set.
Lookup(env, name) == IF name \in DOMAIN env THEN env[name] ELSE <<>>

\* [ok, val]: the word with every $NAME and ${NAME} replaced by the table's
\* value; ok is FALSE on "${" without a name or without its "}".
RECURSIVE ProcessWordWithMap(_, _)
ProcessWordWithMap(word, env) ==
    IF word = <<>> THEN [ok |-> TRUE, val |-> <<>>]
    ELSE IF Head(word) # "$" THEN
        LET rest == ProcessWordWithMap(Tail(word), env) IN
        [ok |-> rest.ok, val |-> <<Head(word)>> \o rest.val]
    ELSE IF Len(word) >= 2 /\ word[2] = "{" THEN
        LET body == SubSeq(word, 3, Len(word))
            n == NameLen(body)
        IN  IF n = 0 \/ n = Len(body) \/ body[n + 1] # "}"
            THEN [ok |-> FALSE, val |-> <<>>]
            ELSE LET rest == ProcessWordWithMap(SubSeq(body, n + 2, Len(body)), env) IN
                 [ok |-> rest.ok,
                  val |-> Lookup(env, SubSeq(body, 1, n)) \o rest.val]
    ELSE
        LET body == Tail(word)
            n == NameLen(body)
        IN  IF n = 0
            THEN LET rest == ProcessWordWithMap(body, env) IN
                 [ok |-> rest.ok, val |-> <<"$">> \o rest.val]
            ELSE LET rest == ProcessWordWithMap(SubSeq(body, n + 1, Len(body)), env) IN
                 [ok |-> rest.ok,
                  val |-> Lookup(env, SubSeq(body, 1, n)) \o rest.val]

(***************************************************************************)
(* The filesystem view os.DirFS(c.Workdir): a tree of nodes.  A node is a  *)
(* file (its bytes; perm FALSE when opening it is denied) or a directory   *)
(* (its entries by name; perm FALSE when listing it is denied).            *)
(***************************************************************************)

File(data) == [dir |-> FALSE, data |-> data, ents |-> <<>>, perm |-> TRUE]
Locked(data) == [dir |-> FALSE, data |-> data, ents |-> <<>>, perm |-> FALSE]
Dir(ents) == [dir |-> TRUE, data |-> <<>>, ents |-> ents, perm |-> TRUE]

\* io/fs.ValidPath: "." or slash-separated segments none of which is "", "." or "..".
ValidPath(path) ==
    \/ path = <<".">>
    \/ /\ path # <<>>
       /\ \A i \in DOMAIN Split(path) :
            Split(path)[i] \notin {<<>>, <<".">>, <<".", ".">>}

\* The node the segments lead to from node, [ok |-> FALSE] when there is none.
RECURSIVE Descend(_, _)
Descend(node, segs) ==
    IF segs = <<>> THEN [ok |-> TRUE, node |-> node]
    ELSE IF ~node.dir \/ Head(segs) \notin DOMAIN node.ents
         THEN [ok |-> FALSE, node |-> node]
         ELSE Descend(node.ents[Head(segs)], Tail(segs))

\* fs.Stat(fsys, path): an invalid or missing path is an error.
Stat(fsys, path) ==
    IF ~ValidPath(path) THEN [ok |-> FALSE, node |-> fsys]
    ELSE IF path = <<".">> THEN [ok |-> TRUE, node |-> fsys]
    ELSE Descend(fsys, Split(path))

\* The names of a set in ascending order.
RECURSIVE SortedNames(_)
SortedNames(S) ==
    IF S = {} THEN <<>>
    ELSE LET m == CHOOSE x \in S : \A y \in S : StrLeq(x, y)
         IN  <<m>> \o SortedNames(S \ {m})

\* s rotated left by k places.
Rotate(s, k) ==
    IF s = <<>> THEN s
    ELSE [i \in DOMAIN s |-> s[((i - 1 + k) % Len(s)) + 1]]

\* The order in which the operating system hands out a directory's entries:
\* any order; here the name order rotated by the view's listing number.
RawList(node, listing) == Rotate(SortedNames(DOMAIN node.ents), listing)

\* The listing without the sort of fs.ReadDir.
ReadDirUnsorted(fsys, listing, path) ==
    LET st == Stat(fsys, path) IN
    IF ~st.ok \/ ~st.node.dir \/ ~st.node.perm
    THEN [ok |-> FALSE, names |-> <<>>]
    ELSE [ok |-> TRUE, names |-> RawList(st.node, listing)]

\* fs.ReadDir(fsys, path): the entries of the directory sorted by filename.
ReadDir(fsys, listing, path) ==
    LET st == Stat(fsys, path) IN
    IF ~st.ok \/ ~st.node.dir \/ ~st.node.perm
    THEN [ok |-> FALSE, names |-> <<>>]
    ELSE [ok |-> TRUE, names |-> SortStrings(RawList(st.node, listing))]

\* path.Clean of a relative path, by segments.
RECURSIVE CleanSegs(_, _)
CleanSegs(segs, acc) ==
    IF segs = <<>> THEN acc
    ELSE IF Head(segs) \in {<<>>, <<".">>} THEN CleanSegs(Tail(segs), acc)
    ELSE IF Head(segs) = <<".", ".">> /\ acc # <<>> /\ acc[Len(acc)] # <<".", ".">>
         THEN CleanSegs(Tail(segs), SubSeq(acc, 1, Len(acc) - 1))
    ELSE CleanSegs(Tail(segs), Append(acc, Head(segs)))

Clean(path) ==
    LET segs == CleanSegs(Split(path), <<>>) IN
    IF segs = <<>> THEN <<".">> ELSE JoinSegs(segs)

\* filepath.Rel(".", path) for a relative path: the cleaned path.
Rel(path) == Clean(path)

\* filepath.Join(dir, name).
Join(dir, name) == Clean(dir \o <<"/">> \o name)

Meta == {"*", "?", "[", "\\"}

hasMeta(pattern) == \E i \in DOMAIN pattern : pattern[i] \in Meta

\* path.Match reports ErrBadPattern for a "[" that no "]" closes.
BadPattern(pattern) ==
    \E i \in DOMAIN pattern :
        pattern[i] = "[" /\ IndexFrom(pattern, "]", i + 1) = 0

\* path.Match(pattern, name) for patterns of literals, "?" and "*".
RECURSIVE Match(_, _)
Match(pattern, name) ==
    IF pattern = <<>> THEN name = <<>>
    ELSE IF Head(pattern) = "*"
         THEN \E k \in 0..Len(name) :
                 Match(Tail(pattern), SubSeq(name, k + 1, Len(name)))
    ELSE /\ name # <<>>
         /\ Head(pattern) \in {"?", Head(name)}
         /\ Match(Tail(pattern), Tail(name))

\* The index of the last "/" of s, 0 when there is none.
RECURSIVE LastSlash(_, _)
LastSlash(s, i) ==
    IF i = 0 THEN 0 ELSE IF s[i] = "/" THEN i ELSE LastSlash(s, i - 1)

\* io/fs glob(fs, dir, pattern, matches): the entries of dir that match, in
\* ReadDir's order, joined to dir; an unreadable dir adds nothing.
globDir(fsys, listing, dir, pattern) ==
    LET rd == ReadDir(fsys, listing, dir) 
        hit == SelectSeq(rd.names, LAMBDA n : Match(pattern, n))
    IN  [i \in DOMAIN hit |-> Join(dir, hit[i])]

\* fs.Glob(fsys, pattern): [ok, files].
RECURSIVE Glob(_, _, _)
Glob(fsys, listing, pattern) ==
    IF BadPattern(pattern) THEN [ok |-> FALSE, files |-> <<>>]
    ELSE IF ~hasMeta(pattern) THEN
        [ok |-> TRUE,
         files |-> IF Stat(fsys, pattern).ok THEN <<pattern>> ELSE <<>>]
    ELSE
        LET k == LastSlash(pattern, Len(pattern))
            dir == IF k = 0 THEN <<".">> ELSE SubSeq(pattern, 1, k - 1)
            file == SubSeq(pattern, k + 1, Len(pattern))
        IN  IF ~hasMeta(dir)
            THEN [ok |-> TRUE, files |-> globDir(fsys, listing, dir, file)]
            ELSE LET m == Glob(fsys, listing, dir) IN
                 IF ~m.ok THEN m
                 ELSE [ok |-> TRUE,
                       files |-> Concat([i \in DOMAIN m.files |->
                                   globDir(fsys, listing, m.files[i], file)])]

(***************************************************************************)
(* The tree hasher.  Each operator yields [ok, out]: out is what it wrote  *)
(* to the accumulator h, ok is FALSE when it returned an error.            *)
(***************************************************************************)

\* fileSha: the file's bytes, copied to h.
fileSha(fsys, path) ==
    LET st == Stat(fsys, path) IN
    IF ~st.ok \/ ~st.node.perm THEN [ok |-> FALSE, out |-> <<>>]
    ELSE [ok |-> TRUE, out |-> st.node.data]

RECURSIVE pathSha(_, _, _)
RECURSIVE shaChildren(_, _, _, _)

\* The loop of dirSha over the children: for each, its path, then its hash
\* input; the first error ends the loop.
shaChildren(fsys, listing, path, names) ==
    IF names = <<>> THEN [ok |-> TRUE, out |-> <<>>]
    ELSE LET childPath == Join(path, Head(names))
             one == pathSha(fsys, listing, childPath)
         IN  IF ~one.ok THEN [ok |-> FALSE, out |-> childPath \o one.out]
             ELSE LET rest == shaChildren(fsys, listing, path, Tail(names)) IN
                  [ok |-> rest.ok, out |-> childPath \o one.out \o rest.out]

\* dirSha with the children in the order the operating system lists them.
dirShaUnsorted(fsys, listing, path) ==
    LET children == ReadDirUnsorted(fsys, listing, path) IN
    IF ~children.ok THEN [ok |-> FALSE, out |-> <<>>]
    ELSE shaChildren(fsys, listing, path, children.names)

\* dirSha: the children as fs.ReadDir returns them.
dirSha(fsys, listing, path) ==
    LET children == ReadDir(fsys, listing, path) IN
    IF ~children.ok THEN [ok |-> FALSE, out |-> <<>>]
    ELSE shaChildren(fsys, listing, path, children.names)

pathSha(fsys, listing, path) ==
    LET stat == Stat(fsys, path) IN
    IF ~stat.ok THEN [ok |-> FALSE, out |-> <<>>]
    ELSE IF ~stat.node.dir THEN fileSha(fsys, path)
    ELSE dirSha(fsys, listing, path)

\* The inner loop of CalculateDockerfileChecksum over the files a pattern
\* matches: the file's name, then pathSha.
RECURSIVE shaFiles(_, _, _)
shaFiles(fsys, listing, files) ==
    IF files = <<>> THEN [ok |-> TRUE, out |-> <<>>]
    ELSE LET one == pathSha(fsys, listing, Head(files)) IN
         IF ~one.ok THEN [ok |-> FALSE, out |-> Head(files) \o one.out]
         ELSE LET rest == shaFiles(fsys, listing, Tail(files)) IN
              [ok |-> rest.ok, out |-> Head(files) \o one.out \o rest.out]

\* One turn of the loop over paths hashing, for every match, the directory
\* that holds it.
resolvePathParent(fsys, listing, path) ==
    LET rel == IF HasPrefix(path, <<".", "/">>) THEN Rel(path) ELSE path
        g == Glob(fsys, listing, rel)
        parents == [i \in DOMAIN g.files |-> Join(g.files[i], <<".", ".">>)]
    IN  IF ~g.ok THEN [ok |-> FALSE, out |-> <<>>, files |-> <<>>]
        ELSE LET r == shaFiles(fsys, listing, parents) IN
             [ok |-> r.ok, out |-> r.out, files |-> g.files]

\* One turn of the loop over paths: the pattern made relative, globbed, and
\* every match hashed.  [ok, out, files].
resolvePath(fsys, listing, path) ==
    LET rel == IF HasPrefix(path, <<".", "/">>) THEN Rel(path) ELSE path
        g == Glob(fsys, listing, rel)
    IN  IF ~g.ok THEN [ok |-> FALSE, out |-> <<>>, files |-> <<>>]
        ELSE LET r == shaFiles(fsys, listing, g.files) IN
             [ok |-> r.ok, out |-> r.out, files |-> g.files]

(***************************************************************************)
(* Composition of the parameters                                           *)
(***************************************************************************)

\* The (key, value) pairs of m written in the order keys gives.
RECURSIVE writePairs(_, _)
writePairs(m, keys) ==
    IF keys = <<>> THEN <<>>
    ELSE Head(keys) \o m[Head(keys)] \o writePairs(m, Tail(keys))

\* addMapToHash with the keys as the map's iteration yields them.
addMapToHashUnsorted(m, keys) == writePairs(m, keys)

\* addMapToHash(h, m): keys is maps.Keys(m), in the map's iteration order;
\* the keys are sorted, then each key and its value written.
addMapToHash(m, keys) == writePairs(m, SortStrings(keys))

\* addSliceToHash without the sort.
addSliceToHashUnsorted(s) == [s |-> s, out |-> Concat(s)]

\* addSliceToHash(h, s): [s, out]: the slice, sorted in place, and its
\* strings written in that order.
addSliceToHash(s) == [s |-> SortStrings(s), out |-> Concat(SortStrings(s))]

(***************************************************************************)
(* The hash: hash.Hash is modelled by the bytes written to it (h), its     *)
(* Sum by a 16-bit position-weighted checksum seeded per algorithm, and    *)
(* fmt.Sprintf("%x") by the checksum's four hexadecimal digits.            *)
(***************************************************************************)

Algorithms == {<<"s", "h", "a", "1">>, <<"m", "d", "5">>,
               <<"s", "h", "a", "2", "5", "6">>}

HexDigits ==
    <<"0", "1", "2", "3", "4", "5", "6", "7", "8", "9",
      "a", "b", "c", "d", "e", "f">>

\* The sum over positions lo..hi of weight * byte, by halves.
RECURSIVE WeightedSum(_, _, _)
WeightedSum(bytes, lo, hi) ==
    IF lo > hi THEN 0
    ELSE IF lo = hi THEN (lo * Ascii[bytes[lo]]) % 65521
    ELSE LET mid == (lo + hi) \div 2 IN
         (WeightedSum(bytes, lo, mid) + WeightedSum(bytes, mid + 1, hi)) % 65521

Sum(alg, bytes) == (Len(alg) + 251 * Len(bytes) + WeightedSum(bytes, 1, Len(bytes))) % 65521

Hex(n) ==
    << HexDigits[((n \div 4096) % 16) + 1], HexDigits[((n \div 256) % 16) + 1],
       HexDigits[((n \div 16) % 16) + 1], HexDigits[(n % 16) + 1] >>

(***************************************************************************)
(* Recipes: what parser.Parse and instructions.Parse yield for a           *)
(* Dockerfile.  metaArgs are the ARG commands before the first FROM; a     *)
(* stage is the sequence of its commands.                                  *)
(***************************************************************************)

ARG1 == <<"A", "R", "G", "1">>
ENV1 == <<"E", "N", "V", "1">>
builder == <<"b", "u", "i", "l", "d", "e", "r">>
app == <<"/", "a", "p", "p">>

NoCmd ==
    [kind |-> "NONE", from |-> <<>>, srcs |-> <<>>, dest |-> <<>>,
     env |-> <<>>, mounts |-> <<>>, args |-> <<>>]

CopyCommand(from, srcs, dest) ==
    [NoCmd EXCEPT !.kind = "COPY", !.from = from, !.srcs = srcs, !.dest = dest]
AddCommand(srcs, dest) == [NoCmd EXCEPT !.kind = "ADD", !.srcs = srcs, !.dest = dest]
EnvCommand(env) == [NoCmd EXCEPT !.kind = "ENV", !.env = env]
RunCommand(mounts) == [NoCmd EXCEPT !.kind = "RUN", !.mounts = mounts]
ArgCommand(args) == [NoCmd EXCEPT !.kind = "ARG", !.args = args]
WorkdirCommand(path) == [NoCmd EXCEPT !.kind = "WORKDIR", !.dest = path]

KeyValue(k, v) == [Key |-> k, Value |-> v]
\* An ARG with a default, and one without (arg.Value = nil).
ArgDefault(k, v) == [Key |-> k, Value |-> v, hasValue |-> TRUE]
ArgPlain(k) == [Key |-> k, Value |-> <<>>, hasValue |-> FALSE]
Mount(type, from, source, target) ==
    [Type |-> type, From |-> from, Source |-> source, Target |-> target]

Recipe(text, metaArgs, stages) ==
    [text |-> text, parseErr |-> "", metaArgs |-> metaArgs, stages |-> stages]
Unparsable(text, where) ==
    [text |-> text, parseErr |-> where, metaArgs |-> <<>>, stages |-> <<>>]

\* testdata/Dockerfile.
TestRecipe ==
    Recipe(<<"t", "e", "s", "t">>,
        << ArgCommand(<< ArgPlain(ARG1) >>) >>,
        << << RunCommand(<<
                 Mount("bind", <<>>, <<".", "/", "d", "i", "s", "t">>,
                       <<"/", "a", "p", "p", "/", "d", "i", "s", "t">>),
                 Mount("cache", <<>>, <<>>,
                       <<"/", "g", "o", "/", "p", "k", "g", "/", "m", "o", "d">>) >>) >>,
           << WorkdirCommand(app),
              EnvCommand(<< KeyValue(ENV1, <<"d">>) >>),
              RunCommand(<<
                 Mount("bind", builder, <<"/", "e", "t", "c", "/", "t", "m", "p">>,
                       <<"/", "a", "p", "p", "/", "d", "i", "s", "t">>) >>),
              CopyCommand(<<>>, << <<".", "/", "a", "/", "*">> >>, app),
              CopyCommand(<<>>, << <<".", "/", "$", "{", "A", "R", "G", "1", "}">> >>, app),
              AddCommand(<< <<".", "/", "c">> >>, app),
              CopyCommand(<<>>, << <<".", "/", "$", "{", "E", "N", "V", "1", "}">> >>, app),
              CopyCommand(builder, << <<".", "/", "a">> >>, app) >> >>)

\* ARG ARG1=c / FROM / COPY ./${ARG1} / ENV ARG1=d / COPY ./$ARG1 /
\* ENV ARG1=a / ADD ./${ARG1}/* 
EnvRecipe ==
    Recipe(<<"e", "n", "v">>,
        << ArgCommand(<< ArgDefault(ARG1, <<"c">>) >>) >>,
        << << CopyCommand(<<>>, << <<".", "/", "$", "{", "A", "R", "G", "1", "}">> >>, app),
              EnvCommand(<< KeyValue(ARG1, <<"d">>) >>),
              CopyCommand(<<>>, << <<".", "/", "$", "A", "R", "G", "1">> >>, app),
              EnvCommand(<< KeyValue(ARG1, <<"a">>) >>),
              AddCommand(<< <<".", "/", "$", "{", "A", "R", "G", "1", "}", "/", "*">> >>,
                         app) >> >>)

\* ARG ARG1=a / FROM ... as builder / ARG ENV1=b / COPY ./${ENV1} ./c /
\* FROM / RUN --mount=type=bind,source=./${ARG1} / RUN --mount=type=cache /
\* COPY --from=builder ./a
StageRecipe ==
    Recipe(<<"s", "t", "a", "g", "e">>,
        << ArgCommand(<< ArgDefault(ARG1, <<"a">>) >>) >>,
        << << ArgCommand(<< ArgDefault(ENV1, <<"b">>) >>),
              CopyCommand(<<>>, << <<".", "/", "$", "{", "E", "N", "V", "1", "}">>,
                                   <<".", "/", "c">> >>, app) >>,
           << RunCommand(<<
                 Mount("bind", <<>>, <<".", "/", "$", "{", "A", "R", "G", "1", "}">>, app) >>),
              RunCommand(<<
                 Mount("cache", <<>>, <<>>,
                       <<"/", "g", "o", "/", "p", "k", "g", "/", "m", "o", "d">>) >>),
              CopyCommand(builder, << <<".", "/", "a">> >>, app) >> >>)

\* FROM / COPY ./a / COPY ./${ARG1 : the second word does not expand.
BadWordRecipe ==
    Recipe(<<"w", "o", "r", "d">>,
        << >>,
        << << CopyCommand(<<>>, << <<".", "/", "a">> >>, app),
              CopyCommand(<<>>, << <<".", "/", "$", "{", "A", "R", "G", "1">> >>, app) >> >>)

\* FROM / ADD ./b / ADD ./[ : the second pattern is malformed.
BadGlobRecipe ==
    Recipe(<<"g", "l", "o", "b">>,
        << >>,
        << << AddCommand(<< <<".", "/", "b">> >>, app),
              AddCommand(<< <<".", "/", "[">> >>, app) >> >>)

\* FROM / COPY ./a / ADD ./../x : the second pattern leaves the root.
OutsideRecipe ==
    Recipe(<<"o", "u", "t">>,
        << >>,
        << << CopyCommand(<<>>, << <<".", "/", "a">> >>, app),
              AddCommand(<< <<".", "/", ".", ".", "/", "x">> >>, app) >> >>)

\* os.ReadFile by file name; a name outside the domain is a missing file.
Dockerfiles ==
    "testdata/Dockerfile" :> TestRecipe @@
    "env.Dockerfile" :> EnvRecipe @@
    "stage.Dockerfile" :> StageRecipe @@
    "badword.Dockerfile" :> BadWordRecipe @@
    "badglob.Dockerfile" :> BadGlobRecipe @@
    "outside.Dockerfile" :> OutsideRecipe @@
    "syntax.Dockerfile" :> Unparsable(<<"s", "y", "n">>, "parser") @@
    "nofrom.Dockerfile" :> Unparsable(<<"n", "o">>, "instructions")

DockerfileNames == DOMAIN Dockerfiles \cup {"missing.Dockerfile"}

\* The commands of all stages, in stage order, then instruction order.
Commands(recipe) == Concat(recipe.stages)

(***************************************************************************)
(* The instruction walk of PathsFromDockerfile                             *)
(***************************************************************************)

\* The loop over argCommands with the default written whether or not the
\* name is already in the table.
metaArgDefaultsOverwrite(argCmds, buildArgs) ==
    LET args == Concat([i \in DOMAIN argCmds |-> argCmds[i].args])
        RECURSIVE put(_, _)
        put(i, t) ==
            IF i > Len(args) THEN t
            ELSE put(i + 1,
                     IF args[i].hasValue
                     THEN (args[i].Key :> args[i].Value) @@ t
                     ELSE t)
    IN  put(1, buildArgs)

\* The loop over argCommands: a default is inserted for a name that is not
\* in the table.
metaArgDefaults(argCmds, buildArgs) ==
    LET args == Concat([i \in DOMAIN argCmds |-> argCmds[i].args])
        RECURSIVE put(_, _)
        put(i, t) ==
            IF i > Len(args) THEN t
            ELSE put(i + 1,
                     IF args[i].Key \notin DOMAIN t /\ args[i].hasValue
                     THEN (args[i].Key :> args[i].Value) @@ t
                     ELSE t)
    IN  put(1, buildArgs)

\* The words an instruction's Expand passes to the expander.
Words(cmd) ==
    CASE cmd.kind \in {"COPY", "ADD"} -> Append(cmd.srcs, cmd.dest)
      [] cmd.kind = "WORKDIR" -> <<cmd.dest>>
      [] cmd.kind = "ENV" ->
            Concat([i \in DOMAIN cmd.env |-> <<cmd.env[i].Key, cmd.env[i].Value>>])
      [] cmd.kind = "ARG" ->
            Concat([i \in DOMAIN cmd.args |->
                      IF cmd.args[i].hasValue
                      THEN <<cmd.args[i].Key, cmd.args[i].Value>>
                      ELSE <<cmd.args[i].Key>>])
      [] cmd.kind = "RUN" ->
            Concat([i \in DOMAIN cmd.mounts |->
                      <<cmd.mounts[i].Source, cmd.mounts[i].Target>>])
      [] OTHER -> <<>>

expandBuildArgs(word, buildArgs) == ProcessWordWithMap(word, buildArgs).val

\* iCmd.Expand(expandBuildArgs): the instruction with its words expanded.
Expand(cmd, buildArgs) ==
    LET X(w) == expandBuildArgs(w, buildArgs) IN
    [cmd EXCEPT
        !.srcs = [i \in DOMAIN cmd.srcs |-> X(cmd.srcs[i])],
        !.dest = X(cmd.dest),
        !.env = [i \in DOMAIN cmd.env |->
                    KeyValue(X(cmd.env[i].Key), X(cmd.env[i].Value))],
        !.args = [i \in DOMAIN cmd.args |->
                    [cmd.args[i] EXCEPT !.Key = X(@), !.Value = X(@)]],
        !.mounts = [i \in DOMAIN cmd.mounts |->
                    [cmd.mounts[i] EXCEPT !.Source = X(@), !.Target = X(@)]]]

ExpandFails(cmd, buildArgs) ==
    \E i \in DOMAIN Words(cmd) : ~ProcessWordWithMap(Words(cmd)[i], buildArgs).ok

\* The Env loop: each pair set in the table, in order.
RECURSIVE setEnv(_, _)
setEnv(env, buildArgs) ==
    IF env = <<>> THEN buildArgs
    ELSE setEnv(Tail(env), (Head(env).Key :> Head(env).Value) @@ buildArgs)

\* The Env loop setting only the names the table does not hold.
RECURSIVE setEnvIfAbsent(_, _)
setEnvIfAbsent(env, buildArgs) ==
    IF env = <<>> THEN buildArgs
    ELSE setEnvIfAbsent(Tail(env), buildArgs @@ (Head(env).Key :> Head(env).Value))

\* The sources of the bind mounts with no from stage.
bindSources(mounts) ==
    LET local == SelectSeq(mounts, LAMBDA m : m.From = <<>> /\ m.Type = "bind")
    IN  [i \in DOMAIN local |-> local[i].Source]

\* The switch of the walk without the test of cmd.From.
walkSwitchAnyFrom(cmd, buildArgs, paths) ==
    CASE cmd.kind \in {"COPY", "ADD"} ->
            [buildArgs |-> buildArgs, paths |-> paths \o cmd.srcs]
      [] cmd.kind = "ENV" ->
            [buildArgs |-> setEnv(cmd.env, buildArgs), paths |-> paths]
      [] cmd.kind = "RUN" ->
            [buildArgs |-> buildArgs, paths |-> paths \o bindSources(cmd.mounts)]
      [] OTHER -> [buildArgs |-> buildArgs, paths |-> paths]

\* The switch of the walk with Env entries that do not overwrite.
walkSwitchEnvKeeps(cmd, buildArgs, paths) ==
    CASE cmd.kind = "COPY" ->
            [buildArgs |-> buildArgs,
             paths |-> IF cmd.from = <<>> THEN paths \o cmd.srcs ELSE paths]
      [] cmd.kind = "ADD" ->
            [buildArgs |-> buildArgs, paths |-> paths \o cmd.srcs]
      [] cmd.kind = "ENV" ->
            [buildArgs |-> setEnvIfAbsent(cmd.env, buildArgs), paths |-> paths]
      [] cmd.kind = "RUN" ->
            [buildArgs |-> buildArgs, paths |-> paths \o bindSources(cmd.mounts)]
      [] OTHER -> [buildArgs |-> buildArgs, paths |-> paths]

\* The switch of the walk on an expanded instruction: the table and the
\* path list after it.
walkSwitch(cmd, buildArgs, paths) ==
    CASE cmd.kind = "COPY" ->
            [buildArgs |-> buildArgs,
             paths |-> IF cmd.from = <<>> THEN paths \o cmd.srcs ELSE paths]
      [] cmd.kind = "ADD" ->
            [buildArgs |-> buildArgs, paths |-> paths \o cmd.srcs]
      [] cmd.kind = "ENV" ->
            [buildArgs |-> setEnv(cmd.env, buildArgs), paths |-> paths]
      [] cmd.kind = "RUN" ->
            [buildArgs |-> buildArgs, paths |-> paths \o bindSources(cmd.mounts)]
      [] OTHER -> [buildArgs |-> buildArgs, paths |-> paths]

(***************************************************************************)
(* The inputs the model draws from                                         *)
(***************************************************************************)

MaxPlatforms == 2
MaxListing == 2

EmptyMap == << >>

BuildArgChoices ==
    { EmptyMap,
      ARG1 :> <<"b">>,
      ARG1 :> <<"c">>,
      (ARG1 :> <<"b">>) @@ (ENV1 :> <<"c">>) }

PlatformNames ==
    { <<"l", "i", "n", "u", "x", "/", "a", "m", "d", "6", "4">>,
      <<"l", "i", "n", "u", "x", "/", "a", "r", "m", "6", "4">> }

PlatformChoices == UNION { [1..n -> PlatformNames] : n \in 0..MaxPlatforms }

LabelChoices ==
    { EmptyMap,
      <<"l", "a", "b", "e", "l", "1">> :> <<"v", "a", "l", "u", "e", "1">>,
      <<"l", "a", "b", "e", "l">> :> <<"1", "v", "a", "l", "u", "e", "1">> }

\* The default of the --hash flag, and an identifier the switch does not know.
HashChoices == { <<"s", "h", "a", "1">>, <<"c", "r", "c", "3", "2">> }

\* The tree of main_test.go (a/1, a/2, b, c/1/1, d/1) and a file e that the
\* recipes do not name.
TestTree ==
    Dir( <<"a">> :> Dir(<<"1">> :> File(<<"x">>) @@ <<"2">> :> File(<<"y">>)) @@
         <<"b">> :> File(<<"z">>) @@
         <<"c">> :> Dir(<<"1">> :> Dir(<<"1">> :> File(<<"x">>))) @@
         <<"d">> :> Dir(<<"1">> :> File(<<"y">>)) @@
         <<"e">> :> File(<<"x">>) )

\* The same tree with c/1/1 closed to reading.
LockedTree ==
    Dir( <<"a">> :> Dir(<<"1">> :> File(<<"x">>) @@ <<"2">> :> File(<<"y">>)) @@
         <<"b">> :> File(<<"z">>) @@
         <<"c">> :> Dir(<<"1">> :> Dir(<<"1">> :> Locked(<<"x">>))) @@
         <<"d">> :> Dir(<<"1">> :> File(<<"y">>)) @@
         <<"e">> :> File(<<"x">>) )

TreeChoices == { TestTree, LockedTree }

\* A change of one file of a tree: written (created or replaced) or removed.
Edits ==
    { [op |-> "write", path |-> << <<"e">> >>, data |-> <<"y">>],
      [op |-> "write", path |-> << <<"z">> >>, data |-> <<"x">>],
      [op |-> "remove", path |-> << <<"e">> >>, data |-> <<>>],
      [op |-> "write", path |-> << <<"a">>, <<"3">> >>, data |-> <<"x">>],
      [op |-> "write", path |-> << <<"c">>, <<"1">>, <<"1">> >>, data |-> <<"y">>] }

\* Changes of a tree below c: the content of c/1/1 replaced, a file c/2
\* added, and the directory c/1 replaced by a file.
InsideEdits ==
    { [op |-> "write", path |-> << <<"c">>, <<"1">>, <<"1">> >>, data |-> <<"y">>],
      [op |-> "write", path |-> << <<"c">>, <<"2">> >>, data |-> <<"x">>],
      [op |-> "write", path |-> << <<"c">>, <<"1">> >>,
       data |-> <<"c", "/", "1", "/", "1", "x">>] }

RECURSIVE ApplyEdit(_, _, _, _)
ApplyEdit(node, op, segs, data) ==
    LET name == Head(segs) IN
    IF ~node.dir THEN node
    ELSE IF Len(segs) = 1 THEN
        IF op = "write"
        THEN Dir((name :> File(data)) @@ node.ents)
        ELSE Dir([n \in DOMAIN node.ents \ {name} |-> node.ents[n]])
    ELSE IF name \notin DOMAIN node.ents THEN node
    ELSE Dir((name :> ApplyEdit(node.ents[name], op, Tail(segs), data)) @@ node.ents)

\* The files the patterns resolve to in a tree.
ResolvedFiles(tree, ls, patterns) ==
    Concat([i \in DOMAIN patterns |-> resolvePath(tree, ls, patterns[i]).files])

\* path is file, or lies below it.
Under(path, file) ==
    \/ file = <<".">>
    \/ path = file
    \/ HasPrefix(path, file \o <<"/">>)

Outside(path, resolved) == \A i \in DOMAIN resolved : ~Under(path, resolved[i])

(***************************************************************************)
(* State                                                                   *)
(***************************************************************************)

VARIABLES
    cfg,      \* the Config of the call; BuildArgs and Platforms are the
              \* caller's own map and slice, written through by the callee
    fsys,     \* the tree at c.Workdir
    listing,  \* the order in which the operating system lists directories
    pc,       \* where the invocation is
    h,        \* the bytes written to the hash so far
    paths,    \* PathsFromDockerfile's paths
    ci,       \* the walk's position in the commands
    pi,       \* the position of the loop over paths
    digest,   \* what CalculateDockerfileChecksum returned
    out,      \* the bytes written to cmd.OutOrStdout()
    cfg0,     \* history: the Config as it was when the call was made
    hist,     \* history: the table each walked command was expanded with
    files,    \* history: the files the patterns resolved to
    mode,     \* history: "first", or how the second call relates to the first
    first     \* history: the first call, once a second is made

vars == <<cfg, fsys, listing, pc, h, paths, ci, pi, digest, out,
          cfg0, hist, files, mode, first>>

recipe == Dockerfiles[cfg.Dockerfile]
cmds == Commands(recipe)

NoCall ==
    [cfg0 |-> <<>>, cfg |-> <<>>, fsys |-> <<>>, listing |-> 0, h |-> <<>>,
     paths |-> <<>>, digest |-> <<>>, out |-> <<>>, files |-> <<>>]

Init ==
    /\ cfg \in [BuildArgs : BuildArgChoices, Labels : LabelChoices,
                Platforms : PlatformChoices, Dockerfile : DockerfileNames,
                Hash : HashChoices]
    /\ cfg0 = cfg
    /\ fsys \in TreeChoices
    /\ listing = 0
    /\ pc = "read"
    /\ h = <<>>
    /\ paths = <<>>
    /\ ci = 1
    /\ pi = 1
    /\ digest = <<>>
    /\ out = <<>>
    /\ hist = <<>>
    /\ files = <<>>
    /\ mode = "first"
    /\ first = NoCall

(***************************************************************************)
(* CalculateDockerfileChecksum, step by step.  pc = "failed" is the        *)
(* process ended by a panic (must, must0, the default of the hash switch). *)
(***************************************************************************)

\* os.ReadFile(c.Dockerfile)
ReadDockerfile ==
    /\ pc = "read"
    /\ pc' = IF cfg.Dockerfile \in DOMAIN Dockerfiles THEN "parse" ELSE "failed"
    /\ UNCHANGED <<cfg, fsys, listing, h, paths, ci, pi, digest, out,
                   cfg0, hist, files, mode, first>>

\* parser.Parse(content)
ParseDockerfile ==
    /\ pc = "parse"
    /\ pc' = IF recipe.parseErr = "parser" THEN "failed" ELSE "hash"
    /\ UNCHANGED <<cfg, fsys, listing, h, paths, ci, pi, digest, out,
                   cfg0, hist, files, mode, first>>

\* switch c.Hash, then h.Write(content)
NewHash ==
    /\ pc = "hash"
    /\ IF cfg.Hash \in Algorithms
       THEN pc' = "args" /\ h' = recipe.text
       ELSE pc' = "failed" /\ h' = h
    /\ UNCHANGED <<cfg, fsys, listing, paths, ci, pi, digest, out,
                   cfg0, hist, files, mode, first>>

\* PathsFromDockerfile up to the walk: instructions.Parse and the loop over
\* argCommands.
ParseInstructions ==
    /\ pc = "args"
    /\ IF recipe.parseErr = "instructions"
       THEN pc' = "failed" /\ cfg' = cfg
       ELSE /\ cfg' = [cfg EXCEPT
                         !.BuildArgs = metaArgDefaults(recipe.metaArgs, cfg.BuildArgs)]
            /\ pc' = IF cmds = <<>> THEN "resolve" ELSE "walk"
    /\ ci' = 1
    /\ pi' = 1
    /\ paths' = <<>>
    /\ UNCHANGED <<fsys, listing, h, digest, out, cfg0, hist, files, mode, first>>

\* One command of the walk: Expand, then the switch; after the last command
\* the paths are sorted and returned.
WalkStep ==
    /\ pc = "walk"
    /\ ci <= Len(cmds)
    /\ hist' = Append(hist, cfg.BuildArgs)
    /\ IF ExpandFails(cmds[ci], cfg.BuildArgs)
       THEN pc' = "failed" /\ UNCHANGED <<cfg, paths, ci>>
       ELSE LET r == walkSwitch(Expand(cmds[ci], cfg.BuildArgs), cfg.BuildArgs, paths)
            IN  /\ cfg' = [cfg EXCEPT !.BuildArgs = r.buildArgs]
                /\ IF ci = Len(cmds)
                   THEN pc' = "resolve" /\ paths' = SortStrings(r.paths) /\ ci' = ci
                   ELSE pc' = "walk" /\ paths' = r.paths /\ ci' = ci + 1
    /\ UNCHANGED <<fsys, listing, h, pi, digest, out, cfg0, files, mode, first>>

\* One turn of the loop over paths with pathSha's error dropped.
ResolveStepIgnoringErrors ==
    /\ pc = "resolve"
    /\ pi <= Len(paths)
    /\ LET r == resolvePath(fsys, listing, paths[pi]) IN
        /\ h' = h \o r.out
        /\ files' = files \o r.files
        /\ pc' = pc
        /\ pi' = pi + 1
    /\ UNCHANGED <<cfg, fsys, listing, paths, ci, digest, out, cfg0, hist, mode, first>>

\* One turn of the loop over paths.
ResolveStep ==
    /\ pc = "resolve"
    /\ pi <= Len(paths)
    /\ LET r == resolvePath(fsys, listing, paths[pi]) IN
        /\ h' = h \o r.out
        /\ files' = files \o r.files
        /\ IF r.ok THEN pc' = pc /\ pi' = pi + 1
                   ELSE pc' = "failed" /\ pi' = pi
    /\ UNCHANGED <<cfg, fsys, listing, paths, ci, digest, out, cfg0, hist, mode, first>>

\* addMapToHash(BuildArgs), addSliceToHash(Platforms), addMapToHash(Labels)
\* and the digest returned.  maps.Keys yields the keys in any order.
Compose ==
    /\ pc = "resolve"
    /\ pi > Len(paths)
    /\ \E argKeys \in Enumerations(DOMAIN cfg.BuildArgs),
          labelKeys \in Enumerations(DOMAIN cfg.Labels) :
        LET platforms == addSliceToHash(cfg.Platforms)
            bytes == h \o addMapToHash(cfg.BuildArgs, argKeys) \o platforms.out
                       \o addMapToHash(cfg.Labels, labelKeys)
        IN  /\ h' = bytes
            /\ cfg' = [cfg EXCEPT !.Platforms = platforms.s]
            /\ digest' = Hex(Sum(cfg.Hash, bytes))
    /\ pc' = "returned"
    /\ UNCHANGED <<fsys, listing, paths, ci, pi, out, cfg0, hist, files, mode, first>>

\* handlerRoot: fmt.Fprint(cmd.OutOrStdout(), must(...))
PrintDigest ==
    /\ pc = "returned"
    /\ out' = out \o digest
    /\ pc' = "done"
    /\ UNCHANGED <<cfg, fsys, listing, h, paths, ci, pi, digest, cfg0, hist,
                   files, mode, first>>

(***************************************************************************)
(* A second call, after a first that returned                              *)
(***************************************************************************)

ThisCall ==
    [cfg0 |-> cfg0, cfg |-> cfg, fsys |-> fsys, listing |-> listing, h |-> h,
     paths |-> paths, digest |-> digest, out |-> out, files |-> files]

Returned == pc = "done" /\ mode = "first"

Call(c, tree, ls, how) ==
    /\ first' = ThisCall
    /\ mode' = how
    /\ cfg' = c
    /\ cfg0' = c
    /\ fsys' = tree
    /\ listing' = ls
    /\ pc' = "read"
    /\ h' = <<>>
    /\ paths' = <<>>
    /\ ci' = 1
    /\ pi' = 1
    /\ digest' = <<>>
    /\ out' = <<>>
    /\ hist' = <<>>
    /\ files' = <<>>

\* As TestChecksum does: the same arguments, parsed afresh.
CallFresh ==
    /\ Returned
    /\ Call(cfg0, fsys, listing, "fresh")

\* The Config value of the first call passed again: the same map and slice.
CallSame ==
    /\ Returned
    /\ Call(cfg, fsys, listing, "same")

\* The platform list in another order.
CallPermuted ==
    /\ Returned
    /\ \E p \in Reorderings(cfg0.Platforms) \ {cfg0.Platforms} :
        Call([cfg0 EXCEPT !.Platforms = p], fsys, listing, "permuted")

\* The same tree, its directories listed in another order.
CallRelisted ==
    /\ Returned
    /\ \E ls \in 1..MaxListing : Call(cfg0, fsys, ls, "relisted")

\* A file changed, added or removed outside every resolved path.
CallOutside ==
    /\ Returned
    /\ \E e \in Edits :
        LET tree == ApplyEdit(fsys, e.op, e.path, e.data) IN
        /\ tree # fsys
        /\ Outside(JoinSegs(e.path), files)
        /\ Outside(JoinSegs(e.path), ResolvedFiles(tree, listing, paths))
        /\ Call(cfg0, tree, listing, "outside")

\* A name or a file's content changed below a resolved path.
CallInside ==
    /\ Returned
    /\ \E e \in InsideEdits :
        LET tree == ApplyEdit(fsys, e.op, e.path, e.data) IN
        /\ tree # fsys
        /\ ~Outside(JoinSegs(e.path), files)
        /\ Call(cfg0, tree, listing, "inside")

\* One of the build arguments, the platforms and the labels differs from the
\* first call's.
CallParams ==
    /\ Returned
    /\ \E c \in [BuildArgs : BuildArgChoices, Labels : LabelChoices,
                 Platforms : PlatformChoices, Dockerfile : {cfg0.Dockerfile},
                 Hash : {cfg0.Hash}] :
        /\ \/ /\ c.BuildArgs # cfg0.BuildArgs
              /\ c.Labels = cfg0.Labels
              /\ c.Platforms = cfg0.Platforms
           \/ /\ c.BuildArgs = cfg0.BuildArgs
              /\ c.Labels # cfg0.Labels
              /\ c.Platforms = cfg0.Platforms
           \/ /\ c.BuildArgs = cfg0.BuildArgs
              /\ c.Labels = cfg0.Labels
              /\ SortStrings(c.Platforms) # SortStrings(cfg0.Platforms)
        /\ Call(c, fsys, listing, "params")

Next ==
    \/ ReadDockerfile
    \/ ParseDockerfile
    \/ NewHash
    \/ ParseInstructions
    \/ WalkStep
    \/ ResolveStep
    \/ Compose
    \/ PrintDigest
    \/ CallFresh
    \/ CallSame
    \/ CallPermuted
    \/ CallRelisted
    \/ CallOutside
    \/ CallInside
    \/ CallParams

Spec == Init /\ [][Next]_vars

(***************************************************************************)
(* Properties                                                              *)
(***************************************************************************)

IsHex(d) == \A i \in DOMAIN d : \E k \in DOMAIN HexDigits : d[i] = HexDigits[k]

SecondDone(how) == mode = how /\ pc = "done"

\* C1. Determinism: a second run on fresh copies of the same inputs (the same
\* recipe, tree, build arguments, platforms, labels and algorithm) returns,
\* as the first did, and writes the same non-empty hex digest, from the same
\* bytes fed to the hash.
Determinism ==
    /\ mode = "fresh" => pc # "failed"
    /\ SecondDone("fresh") =>
        /\ h = first.h
        /\ digest = first.digest
        /\ out = first.out
        /\ out = digest
        /\ digest # <<>>
        /\ IsHex(digest)

DeterminismWitness ==
    /\ SecondDone("fresh")
    /\ Cardinality(DOMAIN cfg.BuildArgs) >= 2
    /\ Len(cfg.Platforms) >= 2
    /\ Len(files) >= 2

\* The source words of a command that the walk is to collect: those of a COPY
\* with no from stage, those of an ADD, the sources of the bind mounts of a
\* RUN that name no from stage.
SourceWords(cmd) ==
    CASE cmd.kind = "COPY" /\ cmd.from = <<>> -> cmd.srcs
      [] cmd.kind = "ADD" -> cmd.srcs
      [] cmd.kind = "RUN" ->
            LET binds == SelectSeq(cmd.mounts,
                            LAMBDA m : m.Type = "bind" /\ m.From = <<>>)
            IN  [i \in DOMAIN binds |-> binds[i].Source]
      [] OTHER -> <<>>

\* The source words of the k-th walked command, each expanded with the table
\* the walk held when it reached the command.
ExpandedSources(k) ==
    LET ws == SourceWords(cmds[k]) IN
    [i \in DOMAIN ws |-> ProcessWordWithMap(ws[i], hist[k]).val]

Walked == pc \in {"resolve", "returned", "done"}

TestPaths ==
    << <<".", "/", "a", "/", "*">>, <<".", "/", "b">>, <<".", "/", "c">>,
       <<".", "/", "d">>, <<".", "/", "d", "i", "s", "t">> >>

\* C2. PathsFromDockerfile returns exactly the sorted list, duplicates kept, of
\* the expanded source words of every COPY without a from stage, every ADD and
\* every bind mount without a from stage, and nothing else; for
\* testdata/Dockerfile with ARG1=b it is ./a/*, ./b, ./c, ./d, ./dist.
PathsExact ==
    Walked =>
        /\ Len(hist) = Len(cmds)
        /\ paths = SortStrings(Concat([k \in DOMAIN cmds |-> ExpandedSources(k)]))
        /\ IsSortedStrings(paths)
        /\ (cfg.Dockerfile = "testdata/Dockerfile" /\ cfg0.BuildArgs = (ARG1 :> <<"b">>))
              => paths = TestPaths

PathsExactWitness ==
    /\ Walked
    /\ cfg.Dockerfile = "testdata/Dockerfile"
    /\ cfg0.BuildArgs = (ARG1 :> <<"b">>)
    /\ paths = TestPaths

\* The name has a default in an ARG before the first FROM.
Declared(name) ==
    \E i \in DOMAIN recipe.metaArgs : \E j \in DOMAIN recipe.metaArgs[i].args :
        /\ recipe.metaArgs[i].args[j].Key = name
        /\ recipe.metaArgs[i].args[j].hasValue

\* The (name, value) pairs the k-th walked command sets when it is an ENV,
\* expanded with the table the walk held when it reached the command.
EnvSets(k) ==
    IF cmds[k].kind # "ENV" THEN <<>>
    ELSE [i \in DOMAIN cmds[k].env |->
            KeyValue(ProcessWordWithMap(cmds[k].env[i].Key, hist[k]).val,
                     ProcessWordWithMap(cmds[k].env[i].Value, hist[k]).val)]

\* The k-th walked command sets the name.
SetsName(k, name) == \E i \in DOMAIN EnvSets(k) : EnvSets(k)[i].Key = name

\* The value the k-th walked command leaves the name with.
ValueSet(k, name) ==
    LET sets == SelectSeq(EnvSets(k), LAMBDA kv : kv.Key = name)
    IN  sets[Len(sets)].Value

InWalk == pc \in {"walk", "resolve", "returned", "done"}

\* C3 as claimed. For a name both supplied by the caller and declared with a
\* default, the table holds the supplied value at every step of the walk and
\* in composition, and every command is expanded with it.
ArgumentPrecedenceAlways ==
    InWalk =>
        \A name \in DOMAIN cfg0.BuildArgs :
            Declared(name) =>
                /\ name \in DOMAIN cfg.BuildArgs
                /\ cfg.BuildArgs[name] = cfg0.BuildArgs[name]
                /\ \A k \in DOMAIN hist : hist[k][name] = cfg0.BuildArgs[name]

\* C3, amended. For a name both supplied by the caller and declared with a
\* default, the default never replaces the supplied value: the table holds
\* the supplied value, and commands are expanded with it, at every step of the
\* walk up to the first ENV that sets the name; when no ENV sets it, the
\* supplied value is the one in the table written in composition.
ArgumentPrecedence ==
    InWalk =>
        \A name \in DOMAIN cfg0.BuildArgs :
            Declared(name) =>
                /\ name \in DOMAIN cfg.BuildArgs
                /\ (\A j \in DOMAIN hist : ~SetsName(j, name))
                      => cfg.BuildArgs[name] = cfg0.BuildArgs[name]
                /\ \A k \in DOMAIN hist :
                      (\A j \in 1..(k - 1) : ~SetsName(j, name))
                          => hist[k][name] = cfg0.BuildArgs[name]

\* The supplied ARG1=b stands against the default a through the walk of
\* stage.Dockerfile, whose bind mount ./${ARG1} became ./b, into composition.
ArgumentPrecedenceWitness ==
    /\ pc = "done"
    /\ cfg.Dockerfile = "stage.Dockerfile"
    /\ Declared(ARG1)
    /\ ARG1 \in DOMAIN cfg0.BuildArgs
    /\ cfg0.BuildArgs[ARG1] = <<"b">>
    /\ cfg.BuildArgs[ARG1] = <<"b">>
    /\ \E i \in DOMAIN paths : paths[i] = <<".", "/", "b">>

\* C4 as claimed. Once an ENV has set a name to a value, every later command
\* is expanded with that value for the name.
EnvironmentOverrideForever ==
    \A i \in DOMAIN hist : \A j \in DOMAIN hist :
        i < j =>
            \A n \in DOMAIN EnvSets(i) :
                LET name == EnvSets(i)[n].Key IN
                /\ name \in DOMAIN hist[j]
                /\ hist[j][name] = ValueSet(i, name)

\* C4, amended. Once an ENV has set a name to a value, every later command is
\* expanded with that value for the name, also when the caller supplied the
\* name, until a later ENV sets the name again; the commands up to and
\* including that ENV keep the words they were expanded to: each of their
\* source words, expanded with the table of its own step, is in the paths.
EnvironmentOverride ==
    /\ \A i \in DOMAIN hist : \A j \in DOMAIN hist :
        i < j =>
            \A n \in DOMAIN EnvSets(i) :
                LET name == EnvSets(i)[n].Key IN
                (\A k \in (i + 1)..(j - 1) : ~SetsName(k, name)) =>
                    /\ name \in DOMAIN hist[j]
                    /\ hist[j][name] = ValueSet(i, name)
    /\ Walked =>
        \A k \in DOMAIN cmds : \A i \in DOMAIN ExpandedSources(k) :
            \E p \in DOMAIN paths : paths[p] = ExpandedSources(k)[i]

\* env.Dockerfile with ARG1=b supplied: the COPY before ENV ARG1=d became ./b,
\* the COPY after it ./d.
EnvironmentOverrideWitness ==
    /\ Walked
    /\ cfg.Dockerfile = "env.Dockerfile"
    /\ ARG1 \in DOMAIN cfg0.BuildArgs
    /\ cfg0.BuildArgs[ARG1] = <<"b">>
    /\ SetsName(2, ARG1)
    /\ hist[3][ARG1] = <<"d">>
    /\ \E p \in DOMAIN paths : paths[p] = <<".", "/", "b">>
    /\ \E p \in DOMAIN paths : paths[p] = <<".", "/", "d">>

\* C5 as claimed. Parameter sensitivity: a call whose build arguments,
\* platforms or labels differ from the first call's, the recipe and the tree
\* being the same, feeds other bytes to the hash.
ParameterSensitivity == SecondDone("params") => h # first.h

\* C6. Parameter order: with the platform list in another order, and the maps
\* iterated in any order, the call feeds the same bytes to the hash and
\* returns the same digest; the pairs are written in ascending key order and
\* the platforms in ascending order.
ParameterOrder ==
    /\ mode = "permuted" => pc # "failed"
    /\ SecondDone("permuted") =>
        /\ cfg0.Platforms # first.cfg0.Platforms
        /\ h = first.h
        /\ digest = first.digest
        /\ out = first.out
    /\ pc \in {"returned", "done"} => IsSortedStrings(cfg.Platforms)

ParameterOrderWitness ==
    /\ SecondDone("permuted")
    /\ ~IsSortedStrings(cfg0.Platforms)
    /\ Cardinality(DOMAIN cfg.BuildArgs) >= 2

\* C7. Listing order: for every resolved path, whatever the order in which the
\* operating system lists directories, pathSha feeds the same bytes; a call on
\* the same tree listed in another order feeds the same bytes to the hash and
\* returns the same digest.
ListingOrder ==
    /\ \A i \in DOMAIN files : \A ls \in 0..MaxListing :
          pathSha(fsys, ls, files[i]) = pathSha(fsys, 0, files[i])
    /\ mode = "relisted" => pc # "failed"
    /\ SecondDone("relisted") =>
        /\ fsys = first.fsys
        /\ listing # first.listing
        /\ files = first.files
        /\ h = first.h
        /\ digest = first.digest

\* The root directory, with five entries that the second listing hands out in
\* another order than the first, was hashed by both calls.
ListingOrderWitness ==
    /\ SecondDone("relisted")
    /\ \E i \in DOMAIN files : files[i] = <<".">>
    /\ RawList(fsys, listing) # RawList(fsys, first.listing)
    /\ Len(RawList(fsys, listing)) >= 3

\* C8. Unreferenced files: when a file outside every resolved path is changed,
\* added or removed, the call resolves the same files, feeds the same bytes to
\* the hash and returns the same digest.
UnreferencedFiles ==
    /\ mode = "outside" => pc # "failed"
    /\ SecondDone("outside") =>
        /\ fsys # first.fsys
        /\ files = first.files
        /\ h = first.h
        /\ digest = first.digest
        /\ out = first.out

UnreferencedFilesWitness ==
    /\ SecondDone("outside")
    /\ Len(files) >= 3
    /\ Stat(fsys, <<"e">>).ok # Stat(first.fsys, <<"e">>).ok

\* Every step the call takes succeeds: the recipe is read and parsed, the
\* algorithm is known, every walked command expands, every path resolves and
\* hashes.
AllStepsSucceed ==
    /\ cfg.Dockerfile \in DOMAIN Dockerfiles
    /\ recipe.parseErr = ""
    /\ cfg.Hash \in Algorithms
    /\ Len(hist) = Len(cmds)
    /\ \A k \in DOMAIN cmds : ~ExpandFails(cmds[k], hist[k])
    /\ \A p \in DOMAIN paths :
          LET rel == IF HasPrefix(paths[p], <<".", "/">>)
                     THEN Rel(paths[p]) ELSE paths[p]
              g == Glob(fsys, listing, rel)
          IN  /\ g.ok
              /\ \A f \in DOMAIN g.files : pathSha(fsys, listing, g.files[f]).ok

\* C9. No digest on failure: a call that failed has written nothing to the
\* output; what is written is the digest, and only by a call all of whose
\* steps succeeded.
NoDigestOnFailure ==
    /\ pc = "failed" => out = <<>> /\ digest = <<>>
    /\ out # <<>> => pc = "done" /\ out = digest /\ AllStepsSucceed
    /\ pc = "done" => out # <<>>

\* A call that failed while hashing, with bytes already fed to the hash.
NoDigestOnFailureWitness ==
    /\ pc = "failed"
    /\ pi <= Len(paths)
    /\ h # <<>>
    /\ files # <<>>
    /\ out = <<>>

\* C10 as claimed. A call leaves the caller's build-argument map, platform
\* list and label map as they were, and a second call with the same Config
\* value extracts the same paths and returns the same digest.
NothingSurvives ==
    /\ pc \in {"returned", "done"} =>
        /\ cfg.BuildArgs = cfg0.BuildArgs
        /\ cfg.Platforms = cfg0.Platforms
        /\ cfg.Labels = cfg0.Labels
    /\ mode = "same" => pc # "failed"
    /\ SecondDone("same") =>
        /\ paths = first.paths
        /\ h = first.h
        /\ digest = first.digest


\* The table the walk holds once the k-th walked command is behind it.
TableAfter(k) == IF k < Len(hist) THEN hist[k + 1] ELSE cfg.BuildArgs

\* The k-th command is behind the walk.
Passed(k) == k \in DOMAIN hist /\ (k < Len(hist) \/ Walked)

\* C11 as claimed. Argument defaults: once the walk has passed an ARG
\* instruction, wherever it stands (inside a stage too), a name it declares
\* with a default and that the table did not hold is in the table with that
\* default, later words expand with it, and composition writes it.
ArgumentDefaults ==
    /\ InWalk =>
        \A i \in DOMAIN recipe.metaArgs : \A j \in DOMAIN recipe.metaArgs[i].args :
            LET arg == recipe.metaArgs[i].args[j] IN
            (arg.hasValue /\ arg.Key \notin DOMAIN cfg0.BuildArgs)
                => /\ arg.Key \in DOMAIN cfg.BuildArgs
                   /\ hist # <<>> => hist[1][arg.Key] = arg.Value
    /\ InWalk =>
        \A k \in DOMAIN cmds :
            (Passed(k) /\ cmds[k].kind = "ARG") =>
                \A j \in DOMAIN cmds[k].args :
                    LET arg == cmds[k].args[j] IN
                    (arg.hasValue /\ arg.Key \notin DOMAIN hist[k])
                        => /\ arg.Key \in DOMAIN TableAfter(k)
                           /\ TableAfter(k)[arg.Key] = arg.Value


\* The tree below a path.
Subtree(tree, path) == Stat(tree, path).node

\* C12 as claimed. Structural sensitivity: when the tree below a resolved path
\* differs from the first call's in a descendant's name or a file's content,
\* the tree hasher feeds different bytes for that path, and the bytes fed to
\* the hash in the whole call differ.
StructuralSensitivity ==
    SecondDone("inside") =>
        /\ \A i \in DOMAIN first.files :
            LET f == first.files[i] IN
            (Stat(fsys, f).ok /\ Subtree(fsys, f) # Subtree(first.fsys, f))
                => pathSha(fsys, listing, f).out
                     # pathSha(first.fsys, first.listing, f).out
        /\ h # first.h


\* The pattern as the loop over paths hands it to fs.Glob.
Relative(pattern) ==
    IF HasPrefix(pattern, <<".", "/">>) THEN Rel(pattern) ELSE pattern

\* The pattern names a path outside the working directory: it is absolute, or
\* it climbs above the root.
OutsideRoot(pattern) ==
    \/ Head(Relative(pattern)) = "/"
    \/ Head(Split(Relative(pattern))) = <<".", ".">>

\* The call failed in the loop over paths, at paths[pi].
ResolveFailed ==
    /\ pc = "failed"
    /\ hist # <<>>
    /\ Len(hist) = Len(cmds)
    /\ ~ExpandFails(cmds[Len(cmds)], hist[Len(hist)])

\* C13 as claimed. Path resolver errors: the loop over paths never gets past a
\* pattern that names a path outside the root (the call fails there and no
\* digest is produced), and it does not fail at a pattern inside the root
\* that matches nothing.
ResolverErrors ==
    /\ Walked =>
        \A k \in DOMAIN paths : k < pi => ~OutsideRoot(paths[k])
    /\ pc \in {"returned", "done"} =>
        \A k \in DOMAIN paths : ~OutsideRoot(paths[k])
    /\ ResolveFailed =>
        LET g == Glob(fsys, listing, Relative(paths[pi])) IN
        ~(~OutsideRoot(paths[pi]) /\ g.ok /\ g.files = <<>>)

=============================================================================
